---- MODULE Spec2Model ----
(***************************************************************************)
(* Flight-log analyser (src/src/App.tsx): the record normaliser            *)
(* (processFlightData), the statistics aggregator (calculateStats) and the *)
(* upload session (handleFileUpload and its FileReader onload handler).    *)
(*                                                                         *)
(* Text is modelled as a sequence of one-character strings, so that        *)
(* parsing, splitting, header canonicalisation and formatting are computed *)
(* character by character as the code computes them.                       *)
(***************************************************************************)
EXTENDS Integers, Sequences, FiniteSets

VARIABLES
    flightData,   \* useState<FlightRecord[]>([])
    stats,        \* useState<FlightStats | null>(null)
    isLoading,    \* useState(false)
    reads,        \* FileReader reads started and not yet delivered
    alertMsg,     \* error.message alerted by the latest onload run ("" if none)
    lastEvent,    \* history: the latest event of the session
    lastFile,     \* history: the workbook the latest onload run was given
    work,         \* history: what the latest onload run did before it ended
    data,         \* SpecStats: the record sequence given to calculateStats
    result        \* SpecStats: what calculateStats produced for data

vars == <<flightData, stats, isLoading, reads, alertMsg, lastEvent, lastFile,
          work, data, result>>

sessionVars == <<flightData, stats, isLoading, reads, alertMsg, lastEvent,
                 lastFile, work>>

statsVars == <<data, result>>

-----------------------------------------------------------------------------
(* JavaScript values *)

\* `undefined`: a missing dictionary key, or a hole in a sheet row. No text
\* equals it, since every element of a text is a single character.
Undefined == <<"undefined">>

\* Truthiness of a string-or-undefined value: undefined and '' are falsy.
Truthy(v) == v # Undefined /\ v # <<>>

\* a || b
Or(v, dflt) == IF Truthy(v) THEN v ELSE dflt

\* A JavaScript number: NaN, or an integer value.
NaN == [nan |-> TRUE, val |-> 0]

Num(n) == [nan |-> FALSE, val |-> n]

\* n || 0 (NaN and 0 are falsy)
OrZero(n) == IF n.nan THEN 0 ELSE n.val

Max2(a, b) == IF a >= b THEN a ELSE b

SetMax(S) == CHOOSE x \in S : \A y \in S : y <= x

SetMin(S) == CHOOSE x \in S : \A y \in S : x <= y

-----------------------------------------------------------------------------
(* Characters *)

DigitChars == <<"0", "1", "2", "3", "4", "5", "6", "7", "8", "9">>

IsDigit(c) == \E i \in 1..10 : DigitChars[i] = c

DigitVal(c) == (CHOOSE i \in 1..10 : DigitChars[i] = c) - 1

HexLower == <<"a", "b", "c", "d", "e", "f">>

HexUpper == <<"A", "B", "C", "D", "E", "F">>

IsHexDigit(c) ==
    \/ IsDigit(c)
    \/ \E i \in 1..6 : HexLower[i] = c \/ HexUpper[i] = c

HexVal(c) ==
    IF IsDigit(c) THEN DigitVal(c)
    ELSE 9 + (CHOOSE i \in 1..6 : HexLower[i] = c \/ HexUpper[i] = c)

\* White space as \s and String.prototype.trim see it.
IsSpace(c) == c \in {" ", "\t", "\n", "\r"}

RECURSIVE TrimStart(_)
TrimStart(s) ==
    IF s # <<>> /\ IsSpace(Head(s)) THEN TrimStart(Tail(s)) ELSE s

RECURSIVE TrimEnd(_)
TrimEnd(s) ==
    IF s # <<>> /\ IsSpace(s[Len(s)])
    THEN TrimEnd(SubSeq(s, 1, Len(s) - 1))
    ELSE s

Trim(s) == TrimEnd(TrimStart(s))

\* String.prototype.includes for a one-character needle
Includes(s, c) == \E i \in 1..Len(s) : s[i] = c

\* String.prototype.split for a one-character separator
RECURSIVE SplitAcc(_, _, _)
SplitAcc(s, c, cur) ==
    IF s = <<>> THEN <<cur>>
    ELSE IF Head(s) = c THEN <<cur>> \o SplitAcc(Tail(s), c, <<>>)
    ELSE SplitAcc(Tail(s), c, Append(cur, Head(s)))

Split(s, c) == SplitAcc(s, c, <<>>)

\* Number.prototype.toString for an integer
RECURSIVE NatToText(_)
NatToText(n) ==
    IF n < 10 THEN <<DigitChars[n + 1]>>
    ELSE Append(NatToText(n \div 10), DigitChars[(n % 10) + 1])

IntToText(n) == IF n < 0 THEN <<"-">> \o NatToText(-n) ELSE NatToText(n)

\* String.prototype.padStart(width, '0')
RECURSIVE PadStart(_, _)
PadStart(s, width) ==
    IF Len(s) >= width THEN s ELSE PadStart(<<"0">> \o s, width)

-----------------------------------------------------------------------------
(* parseInt and Number *)

\* The longest prefix of s made of digits of the radix, as a value; `any`
\* tells whether there was at least one digit.
RECURSIVE DigitRun(_, _, _, _)
DigitRun(s, radix, acc, any) ==
    IF s # <<>> /\ (IF radix = 16 THEN IsHexDigit(Head(s)) ELSE IsDigit(Head(s)))
    THEN DigitRun(Tail(s), radix, acc * radix + HexVal(Head(s)), TRUE)
    ELSE [any |-> any, val |-> acc]

\* The sign a numeric text starts with, and the text behind it
SignOf(s) == IF s # <<>> /\ Head(s) = "-" THEN -1 ELSE 1

DropSign(s) == IF s # <<>> /\ Head(s) \in {"-", "+"} THEN Tail(s) ELSE s

\* The digits parseInt reads behind the sign: a 0x/0X prefix selects radix 16.
IntDigits(u) ==
    IF Len(u) >= 2 /\ u[1] = "0" /\ u[2] \in {"x", "X"}
    THEN DigitRun(Tail(Tail(u)), 16, 0, FALSE)
    ELSE DigitRun(u, 10, 0, FALSE)

Signed(sign, run) == IF ~run.any THEN NaN ELSE Num(sign * run.val)

ParseIntTrimmed(s) == Signed(SignOf(s), IntDigits(DropSign(s)))

\* parseInt(text) with no radix argument: leading white space is skipped, one
\* sign is read, then the longest run of digits is taken and whatever follows
\* is ignored; NaN when there is no digit.
parseInt(text) == ParseIntTrimmed(TrimStart(text))

AllDigits(s) == \A i \in 1..Len(s) : IsDigit(s[i])

NumberSigned(sign, u) ==
    IF u = <<>> \/ ~AllDigits(u) THEN NaN
    ELSE Num(sign * DigitRun(u, 10, 0, FALSE).val)

NumberTrimmed(s) ==
    IF s = <<>> THEN Num(0) ELSE NumberSigned(SignOf(s), DropSign(s))

\* Number(text) on the texts of the model: white space is trimmed, the empty
\* text is 0, an optionally signed run of decimal digits is its value, and any
\* other text is NaN. (Texts with a fraction, an exponent or a radix prefix
\* are not among the cell texts given to it.)
NumberOf(text) == NumberTrimmed(Trim(text))

-----------------------------------------------------------------------------
(* Column names: the literal keys processFlightData reads *)

\* 'Total F\\H'
K_TotalFH == <<"T", "o", "t", "a", "l", " ", "F", "\\", "H">>

\* 'TOTAL HRS'
K_TOTALHRS == <<"T", "O", "T", "A", "L", " ", "H", "R", "S">>

\* 'Ser'
K_Ser == <<"S", "e", "r">>

\* 'Date'
K_Date == <<"D", "a", "t", "e">>

\* 'From'
K_From == <<"F", "r", "o", "m">>

\* 'To'
K_To == <<"T", "o">>

\* 'T\\O hrs'
K_TOhrs == <<"T", "\\", "O", " ", "h", "r", "s">>

\* 'T\\O min'
K_TOmin == <<"T", "\\", "O", " ", "m", "i", "n">>

\* 'Landing hrs'
K_Landinghrs == <<"L", "a", "n", "d", "i", "n", "g", " ", "h", "r", "s">>

\* 'Landing min'
K_Landingmin == <<"L", "a", "n", "d", "i", "n", "g", " ", "m", "i", "n">>

\* 'F\\H hrs'
K_FHhrs == <<"F", "\\", "H", " ", "h", "r", "s">>

\* 'F\\H min'
K_FHmin == <<"F", "\\", "H", " ", "m", "i", "n">>

\* 'Cyc.'
K_Cyc == <<"C", "y", "c", ".">>

\* 'Total Cyc'
K_TotalCyc == <<"T", "o", "t", "a", "l", " ", "C", "y", "c">>

\* 'TLB #'
K_TLB == <<"T", "L", "B", " ", "#">>

\* 'Last Date'
K_LastDate == <<"L", "a", "s", "t", " ", "D", "a", "t", "e">>

\* 'TOTAL MIN'
K_TOTALMIN == <<"T", "O", "T", "A", "L", " ", "M", "I", "N">>

\* 'TOTAL CYC'
K_TOTALCYC == <<"T", "O", "T", "A", "L", " ", "C", "Y", "C">>

\* 'HRS/MOUNTH'
K_HRSMOUNTH == <<"H", "R", "S", "/", "M", "O", "U", "N", "T", "H">>

\* 'CYC/MOUNTH'
K_CYCMOUNTH == <<"C", "Y", "C", "/", "M", "O", "U", "N", "T", "H">>

-----------------------------------------------------------------------------
(* Record Normalizer *)

\* parseTimeToMinutes(hours, minutes)
parseTimeToMinutes(hours, minutes) == Max2(hours * 60 + minutes, 0)

\* isNaN(n) ? 0 : n
NotNaN(n) == IF n.nan THEN 0 ELSE n.val

\* timeStr.split(':').map(Number), the first two parts destructured; a
\* missing second part is undefined, which isNaN.
TimeOfParts(parts) ==
    [hours   |-> NotNaN(NumberOf(parts[1])),
     minutes |-> IF Len(parts) >= 2 THEN NotNaN(NumberOf(parts[2])) ELSE 0]

\* parseTimeString(timeStr)
parseTimeString(timeStr) ==
    IF ~Truthy(timeStr) THEN [hours |-> 0, minutes |-> 0]
    ELSE TimeOfParts(Split(timeStr, ":"))

\* row[key]: the value stored under the key, undefined when there is none
Get(row, key) == IF key \in DOMAIN row THEN row[key] ELSE Undefined

\* parseInt((row[key] || '0').toString()) || 0
IntField(row, key) == OrZero(parseInt(Or(Get(row, key), <<"0">>)))

\* The if/else on totalTimeStr.includes(':') that sets totalFlightHours and
\* totalFlightMinutes
TotalFlightOf(totalTimeStr, row) ==
    IF Includes(totalTimeStr, ":") THEN parseTimeString(totalTimeStr)
    ELSE [hours |-> IntField(row, K_TOTALHRS), minutes |-> 0]

\* totalTimeStr = row['Total F\\H']?.toString() || ''
TotalFlight(row) == TotalFlightOf(Or(Get(row, K_TotalFH), <<>>), row)

\* The object literal the map callback returns
RecordOf(row, index, total) ==
    [ser                |-> Or(Get(row, K_Ser), IntToText(index + 1)),
     date               |-> Or(Get(row, K_Date), <<>>),
     from               |-> Or(Get(row, K_From), <<>>),
     to                 |-> Or(Get(row, K_To), <<>>),
     takeoffHours       |-> IntField(row, K_TOhrs),
     takeoffMinutes     |-> IntField(row, K_TOmin),
     landingHours       |-> IntField(row, K_Landinghrs),
     landingMinutes     |-> IntField(row, K_Landingmin),
     flightHours        |-> IntField(row, K_FHhrs),
     flightMinutes      |-> IntField(row, K_FHmin),
     cycles             |-> IntField(row, K_Cyc),
     totalFlightHours   |-> total.hours,
     totalFlightMinutes |-> total.minutes,
     totalCycles        |-> IntField(row, K_TotalCyc),
     tlbNumber          |-> Or(Get(row, K_TLB), <<>>),
     lastDate           |-> Or(Get(row, K_LastDate), <<>>),
     totalHours         |-> IntField(row, K_TOTALHRS),
     totalMinutes       |-> IntField(row, K_TOTALMIN),
     totalCyclesSum     |-> IntField(row, K_TOTALCYC),
     hoursPerMonth      |-> IntField(row, K_HRSMOUNTH),
     cyclesPerMonth     |-> IntField(row, K_CYCMOUNTH)]

\* The callback of data.map in processFlightData; index counts from 0.
MapRow(row, index) == RecordOf(row, index, TotalFlight(row))

\* Variant: the filter looks at the serial only.
HasSerial(r) == Truthy(r.ser)

\* The filter of processFlightData: r.ser && r.date
IsValidRecord(r) == Truthy(r.ser) /\ Truthy(r.date)

\* processFlightData(rows): map, then filter
processFlightData(rows) ==
    SelectSeq([i \in 1..Len(rows) |-> MapRow(rows[i], i - 1)], IsValidRecord)

-----------------------------------------------------------------------------
(* Dates: new Date(text), getTime, toISOString *)

\* Time values are counted in hours since 1970-01-01T00:00Z rather than in
\* milliseconds; the date texts of the model are ISO date-only texts, which
\* Date parses as midnight UTC.
HoursPerDay == 24

IsLeap(y) == (y % 4 = 0 /\ y % 100 # 0) \/ y % 400 = 0

DaysInMonth(y, m) ==
    IF m = 2 THEN (IF IsLeap(y) THEN 29 ELSE 28)
    ELSE IF m \in {4, 6, 9, 11} THEN 30 ELSE 31

\* Days from 1970-01-01 to a civil date (proleptic Gregorian), computed on
\* the year that starts in March: yy is that year, mp the month counted from
\* March.
DayOfYear(mp, d) == (153 * mp + 2) \div 5 + d - 1

DayOfEra(yoe, doy) == yoe * 365 + yoe \div 4 - yoe \div 100 + doy

DaysFromShifted(yy, mp, d) ==
    (yy \div 400) * 146097 + DayOfEra(yy % 400, DayOfYear(mp, d)) - 719468

DaysFromCivil(y, m, d) ==
    DaysFromShifted(IF m <= 2 THEN y - 1 ELSE y,
                    IF m > 2 THEN m - 3 ELSE m + 9, d)

\* The civil date of a day number: the inverse of DaysFromCivil.
CivilOfMonth(y, mp, doy) ==
    [y |-> IF mp < 10 THEN y ELSE y + 1,
     m |-> IF mp < 10 THEN mp + 3 ELSE mp - 9,
     d |-> doy - (153 * mp + 2) \div 5 + 1]

CivilOfDay(y, doy) == CivilOfMonth(y, (5 * doy + 2) \div 153, doy)

CivilOfYear(era, yoe, doe) ==
    CivilOfDay(yoe + era * 400, doe - (365 * yoe + yoe \div 4 - yoe \div 100))

CivilOfEra(era, doe) ==
    CivilOfYear(era,
                (doe - doe \div 1460 + doe \div 36524 - doe \div 146096) \div 365,
                doe)

CivilFromDays(z) == CivilOfEra((z + 719468) \div 146097, (z + 719468) % 146097)

FieldOf(text, first, last) == DigitRun(SubSeq(text, first, last), 10, 0, FALSE).val

IsIsoShape(text) ==
    /\ Len(text) = 10
    /\ text[5] = "-" /\ text[8] = "-"
    /\ AllDigits(SubSeq(text, 1, 4))
    /\ AllDigits(SubSeq(text, 6, 7))
    /\ AllDigits(SubSeq(text, 9, 10))

TimeOfFields(y, m, d) ==
    IF m \in 1..12 /\ d \in 1..DaysInMonth(y, m)
    THEN Num(DaysFromCivil(y, m, d) * HoursPerDay)
    ELSE NaN

\* new Date(text).getTime() on the texts of the model: an ISO date-only text
\* "YYYY-MM-DD" naming a day of the calendar is that day's midnight UTC; a text
\* of any other shape is an Invalid Date (NaN). The date texts of the model are
\* of the first shape, empty, or without any digit.
DateParse(text) ==
    IF IsIsoShape(text)
    THEN TimeOfFields(FieldOf(text, 1, 4), FieldOf(text, 6, 7), FieldOf(text, 9, 10))
    ELSE NaN

MonthText(c) ==
    PadStart(NatToText(c.y), 4) \o <<"-">> \o PadStart(NatToText(c.m), 2)

\* new Date(t).toISOString().substring(0, 7): "YYYY-MM" of the UTC date
IsoMonth(t) == MonthText(CivilFromDays(t \div HoursPerDay))

-----------------------------------------------------------------------------
(* Statistics Aggregator *)

\* The % of JavaScript: the remainder has the sign of the dividend.
JsRem(a, b) == IF a >= 0 THEN a % b ELSE -((-a) % b)

\* formatMinutesToTime(totalMinutes)
formatMinutesToTime(totalMinutes) ==
    IntToText(totalMinutes \div 60) \o <<":">>
        \o PadStart(IntToText(JsRem(totalMinutes, 60)), 2)

\* Math.round(a / b) for a >= 0, b > 0: halves round up
RoundDiv(a, b) == (2 * a + b) \div (2 * b)

\* Math.ceil(a / b) for b > 0
CeilDiv(a, b) == -((-a) \div b)

minutesOf(r) == parseTimeToMinutes(r.totalFlightHours, r.totalFlightMinutes)

\* data.reduce((sum, record) => sum + parseTimeToMinutes(...), 0)
RECURSIVE SumMinutes(_)
SumMinutes(d) ==
    IF d = <<>> THEN 0
    ELSE SumMinutes(SubSeq(d, 1, Len(d) - 1)) + minutesOf(d[Len(d)])

\* data.reduce((sum, record) => sum + record.totalCycles, 0)
RECURSIVE SumCycles(_)
SumCycles(d) ==
    IF d = <<>> THEN 0
    ELSE SumCycles(SubSeq(d, 1, Len(d) - 1)) + d[Len(d)].totalCycles

\* `${record.from}-${record.to}`
RouteKey(r) == r.from \o <<"-">> \o r.to

\* A JavaScript object used as a map is a sequence of entries in insertion
\* order, which is the order Object.entries gives for keys that are not array
\* indices (a route key holds a "-", a month key too).
HasKey(entries, key) == \E i \in 1..Len(entries) : entries[i].key = key

IndexOfKey(entries, key) == CHOOSE i \in 1..Len(entries) : entries[i].key = key

\* if (!routeStats[route]) routeStats[route] = { count: 0, totalTime: 0 }
EnsureRoute(routeStats, route) ==
    IF HasKey(routeStats, route) THEN routeStats
    ELSE Append(routeStats, [key |-> route, count |-> 0, totalTime |-> 0])

\* routeStats[route].count++; routeStats[route].totalTime += minutes
BumpRouteAt(routeStats, i, minutes) ==
    [routeStats EXCEPT ![i].count = @ + 1, ![i].totalTime = @ + minutes]

BumpRoute(routeStats, route, minutes) ==
    BumpRouteAt(routeStats, IndexOfKey(routeStats, route), minutes)

\* One step of the routeStats loop
AddRoute(routeStats, record) ==
    BumpRoute(EnsureRoute(routeStats, RouteKey(record)), RouteKey(record),
              minutesOf(record))

RECURSIVE BuildRouteStats(_)
BuildRouteStats(d) ==
    IF d = <<>> THEN <<>>
    ELSE AddRoute(BuildRouteStats(SubSeq(d, 1, Len(d) - 1)), d[Len(d)])

\* Array.prototype.sort with (a, b) => b.count - a.count: stable, so entries
\* of equal count keep their order. An entry goes behind every entry whose
\* count is not smaller.
RECURSIVE InsertByCount(_, _)
InsertByCount(sorted, e) ==
    IF sorted = <<>> THEN <<e>>
    ELSE IF Head(sorted).count >= e.count
         THEN <<Head(sorted)>> \o InsertByCount(Tail(sorted), e)
         ELSE <<e>> \o sorted

RECURSIVE SortByCountDesc(_)
SortByCountDesc(entries) ==
    IF entries = <<>> THEN <<>>
    ELSE InsertByCount(SortByCountDesc(SubSeq(entries, 1, Len(entries) - 1)),
                       entries[Len(entries)])

NotAvailable == <<"N", "/", "A">>

\* sorted[0]?.[0] || 'N/A'
FirstKey(sorted) ==
    IF sorted = <<>> THEN NotAvailable ELSE Or(sorted[1].key, NotAvailable)

\* Object.entries(routeStats).sort(...)[0]?.[0] || 'N/A'
MostFrequentRoute(routeStats) == FirstKey(SortByCountDesc(routeStats))

\* if (!monthlyStats[month]) monthlyStats[month] = { hours: 0, ... }
EnsureMonth(monthlyStats, month) ==
    IF HasKey(monthlyStats, month) THEN monthlyStats
    ELSE Append(monthlyStats,
                [key |-> month, hours |-> 0, flights |-> 0, cycles |-> 0])

BumpMonthAt(monthlyStats, i, record) ==
    [monthlyStats EXCEPT ![i].hours = @ + minutesOf(record),
                         ![i].flights = @ + 1,
                         ![i].cycles = @ + record.totalCycles]

BumpMonth(monthlyStats, month, record) ==
    BumpMonthAt(monthlyStats, IndexOfKey(monthlyStats, month), record)

AddMonthAt(monthlyStats, month, record) ==
    BumpMonth(EnsureMonth(monthlyStats, month), month, record)

\* One step of the monthlyStats loop: a record with a falsy date is skipped
AddMonth(monthlyStats, record) ==
    IF Truthy(record.date)
    THEN AddMonthAt(monthlyStats, IsoMonth(DateParse(record.date).val), record)
    ELSE monthlyStats

RECURSIVE BuildMonthlyStats(_)
BuildMonthlyStats(d) ==
    IF d = <<>> THEN <<>>
    ELSE AddMonth(BuildMonthlyStats(SubSeq(d, 1, Len(d) - 1)), d[Len(d)])

\* toISOString of an Invalid Date throws a RangeError: the monthlyStats loop
\* throws at the first record whose date is truthy and does not parse.
MonthlyStatsThrows(d) ==
    \E i \in 1..Len(d) : Truthy(d[i].date) /\ DateParse(d[i].date).nan

\* data.map(r => new Date(r.date)).filter(d => !isNaN(d.getTime())), as times
ValidTimes(d) ==
    {DateParse(d[i].date).val : i \in {j \in 1..Len(d) : ~DateParse(d[j].date).nan}}

SpanDays(times) ==
    IF times # {} THEN CeilDiv(SetMax(times) - SetMin(times), HoursPerDay) + 1
    ELSE 0

TotalDays(d) == SpanDays(ValidTimes(d))

EmptyStats ==
    [kind                 |-> "stats",
     totalFlightTime      |-> <<"0", ":", "0", "0">>,
     totalCycles          |-> 0,
     totalFlights         |-> 0,
     averageFlightTime    |-> <<"0", ":", "0", "0">>,
     mostFrequentRoute    |-> NotAvailable,
     totalDays            |-> 0,
     averageFlightsPerDay |-> 0,
     monthlyStats         |-> <<>>,
     routeStats           |-> <<>>]

RangeError == [kind |-> "throw", message |-> "Invalid time value"]

\* The object calculateStats returns for a non-empty data.
\* averageFlightsPerDay is counted in hundredths (toFixed(2)).
StatsOf(d, totalMinutes, routeStats, totalDays) ==
    [kind                 |-> "stats",
     totalFlightTime      |-> formatMinutesToTime(totalMinutes),
     totalCycles          |-> SumCycles(d),
     totalFlights         |-> Len(d),
     averageFlightTime    |-> formatMinutesToTime(RoundDiv(totalMinutes, Len(d))),
     mostFrequentRoute    |-> MostFrequentRoute(routeStats),
     totalDays            |-> totalDays,
     averageFlightsPerDay |->
         IF totalDays > 0 THEN RoundDiv(100 * Len(d), totalDays) ELSE 0,
     monthlyStats         |-> BuildMonthlyStats(d),
     routeStats           |-> routeStats]

\* calculateStats(data): a FlightStats, or the error it throws
calculateStats(d) ==
    IF d = <<>> THEN EmptyStats
    ELSE IF MonthlyStatsThrows(d) THEN RangeError
    ELSE StatsOf(d, SumMinutes(d), BuildRouteStats(d), TotalDays(d))

-----------------------------------------------------------------------------
(* Upload: building the row dictionaries and running the pipeline *)

\* header.trim().replace(/\\|[\s\n]+/g, ''): the key a column is stored under
CanonicalKey(header) ==
    SelectSeq(Trim(header), LAMBDA c : c # "\\" /\ ~IsSpace(c))

\* row[index]: undefined past the end of a short row
Cell(row, index) == IF index <= Len(row) THEN row[index] ELSE Undefined

\* The dictionary headers.forEach fills, given the key of each column: when
\* two columns share a key, the later column's cell is the one that stays.
RecordOfKeys(keys, row) ==
    [k \in {keys[i] : i \in 1..Len(keys)} |->
        Cell(row, SetMax({i \in 1..Len(keys) : keys[i] = k}))]

\* The dictionary built for one sheet row
RowRecord(headers, row) ==
    RecordOfKeys([i \in 1..Len(headers) |-> CanonicalKey(headers[i])], row)

\* The five required column names of the headers.includes(...) test
RequiredHeaders == {K_Date, K_From, K_To, K_TotalFH, K_TotalCyc}

\* Variant: the required names are looked up among the keys of the columns.
HasRequiredKeys(headers) ==
    \A h \in RequiredHeaders :
        \E i \in 1..Len(headers) : CanonicalKey(headers[i]) = CanonicalKey(h)

\* !headers.includes('Date') || ... : every required name is a header
HasRequiredHeaders(headers) ==
    \A h \in RequiredHeaders : \E i \in 1..Len(headers) : headers[i] = h

\* processFlightData([record])[0], kept by .filter(r => r) unless undefined
FirstOrNone(one) == IF one = <<>> THEN <<>> ELSE <<one[1]>>

\* rows.map(row => processFlightData([record])[0]).filter(r => r): each row
\* is normalised as a one-element array, and an undefined result is dropped.
RECURSIVE ProcessRows(_, _)
ProcessRows(headers, rows) ==
    IF rows = <<>> THEN <<>>
    ELSE FirstOrNone(processFlightData(<<RowRecord(headers, Head(rows))>>))
         \o ProcessRows(headers, Tail(rows))

NoStats == [kind |-> "null"]

MsgDecode == "File is not a readable workbook"

MsgHeaders == "Missing required headers (e.g., Date, From, To, Total F\\H, Total Cyc)"

MsgNoData == "No valid flight data found in the file"

\* The try block left by a throw: the message, and how far it had got (rows
\* normalised, calculateStats called)
Thrown(msg, n, agg) ==
    [ok |-> FALSE, message |-> msg, processedData |-> <<>>,
     calculatedStats |-> NoStats, normalised |-> n, aggregated |-> agg]

\* ... from calculateStats on
TryStats(file, processedData, calculatedStats) ==
    IF calculatedStats.kind = "throw"
    THEN Thrown(calculatedStats.message, Len(file.rows), TRUE)
    ELSE [ok              |-> TRUE,
          message         |-> "",
          processedData   |-> processedData,
          calculatedStats |-> calculatedStats,
          normalised      |-> Len(file.rows),
          aggregated      |-> TRUE]

\* ... from the processedData.length test on
TryProcessed(file, processedData) ==
    IF processedData = <<>> THEN Thrown(MsgNoData, Len(file.rows), FALSE)
    ELSE TryStats(file, processedData, calculateStats(processedData))

\* The try block of reader.onload up to the state setters, a function of the
\* workbook alone: the error it throws, or the values it is about to set.
TryBlock(file) ==
    IF ~file.decodable THEN Thrown(MsgDecode, 0, FALSE)
    ELSE IF ~HasRequiredHeaders(file.headers) THEN Thrown(MsgHeaders, 0, FALSE)
    ELSE TryProcessed(file, ProcessRows(file.headers, file.rows))

\* Variant: setFlightData is called before the processedData.length test.
SetStateBeforeLengthTest(run, fd, st) ==
    IF run.ok
    THEN [flightData |-> run.processedData, stats |-> run.calculatedStats]
    ELSE IF run.message = MsgNoData THEN [flightData |-> <<>>, stats |-> st]
    ELSE [flightData |-> fd, stats |-> st]

\* Variant: only setStats is called.
SetStatsOnly(run, fd, st) ==
    IF run.ok THEN [flightData |-> fd, stats |-> run.calculatedStats]
    ELSE [flightData |-> fd, stats |-> st]

\* setFlightData(processedData); setStats(calculatedStats): reached only when
\* nothing was thrown before; the catch block sets no state.
SetState(run, fd, st) ==
    IF run.ok
    THEN [flightData |-> run.processedData, stats |-> run.calculatedStats]
    ELSE [flightData |-> fd, stats |-> st]

\* The columns of the log sheet, in sheet order
Columns ==
    <<K_Ser,
      K_Date,
      K_From,
      K_To,
      K_TOhrs,
      K_TOmin,
      K_Landinghrs,
      K_Landingmin,
      K_FHhrs,
      K_FHmin,
      K_Cyc,
      K_TotalFH,
      K_TotalCyc,
      K_TLB,
      K_LastDate,
      K_TOTALHRS,
      K_TOTALMIN,
      K_TOTALCYC,
      K_HRSMOUNTH,
      K_CYCMOUNTH>>

\* a leg with no serial: a colon time, a negative, a fractional and a
\* trailing-text number
RowA ==
    <<Undefined,
      <<"2", "0", "2", "4", "-", "0", "1", "-", "0", "1">>,
      <<"A">>,
      <<"B">>,
      <<"8">>,
      <<"1", "5">>,
      <<"9">>,
      <<"4", "5">>,
      <<"1">>,
      <<"3", "0">>,
      <<"-", "5">>,
      <<"3", ":", "3", "0">>,
      <<"7">>,
      <<"T", "1">>,
      Undefined,
      <<"1", "0">>,
      <<"2", "0">>,
      <<"5">>,
      <<"3", ".", "7">>,
      <<"1", "2", "a", "b", "c">>>>

\* a leg with a serial, no colon time, in another month on another route
RowB ==
    <<<<"7">>,
      <<"2", "0", "2", "4", "-", "0", "2", "-", "1", "5">>,
      <<"C">>,
      <<"D">>,
      <<"1", "0">>,
      <<"5">>,
      <<"1", "2">>,
      <<"5", "0">>,
      <<"2">>,
      <<"4", "5">>,
      <<"2">>,
      Undefined,
      <<" ", "4", "2">>,
      Undefined,
      <<"2", "0", "2", "4", "-", "0", "2", "-", "0", "1">>,
      <<"1", "0">>,
      <<"0">>,
      <<"9">>,
      <<"x">>,
      <<"0", "x", "1", "f">>>>

\* a row with neither serial nor date
RowC ==
    <<Undefined,
      Undefined,
      <<"A">>,
      <<"B">>,
      Undefined,
      Undefined,
      Undefined,
      Undefined,
      Undefined,
      Undefined,
      <<"1">>,
      <<"1", ":", "0", "0">>,
      <<"3">>,
      Undefined,
      Undefined,
      <<"1">>,
      Undefined,
      Undefined,
      Undefined,
      Undefined>>

\* a leg whose date is not a date
RowD ==
    <<<<"9">>,
      <<"n", "/", "a">>,
      <<"C">>,
      <<"D">>,
      <<"1">>,
      <<"0">>,
      <<"2">>,
      <<"0">>,
      <<"1">>,
      <<"0">>,
      <<"1">>,
      <<"4", ":", "1", "0">>,
      <<"8">>,
      Undefined,
      Undefined,
      <<"4">>,
      <<"1", "0">>,
      <<"8">>,
      <<"1">>,
      <<"1">>>>

-----------------------------------------------------------------------------
(* The workbooks of the model *)

MaxRows == 2

MaxInFlight == 2

SheetRows == {RowA, RowB, RowC, RowD}

SeqsUpTo(S, n) == UNION {[1..k -> S] : k \in 0..n}

RemoveAt(s, i) == SubSeq(s, 1, i - 1) \o SubSeq(s, i + 1, Len(s))

\* A decoded first sheet: its header row and its data rows
Workbook(headers, rows) ==
    [decodable |-> TRUE, headers |-> headers, rows |-> rows]

\* Bytes XLSX.read throws on
Unreadable == [decodable |-> FALSE, headers |-> <<>>, rows |-> <<>>]

\* The sheet without its 'Total Cyc' column
HeadersNoTotalCyc == RemoveAt(Columns, 13)

\* The sheet whose headers are already spelled as their keys ('TotalFH', ...)
HeadersAsKeys == [i \in 1..Len(Columns) |-> CanonicalKey(Columns[i])]

Files ==
    {Workbook(Columns, rows) : rows \in SeqsUpTo(SheetRows, MaxRows)}
    \cup {Unreadable,
          Workbook(HeadersNoTotalCyc, <<RemoveAt(RowA, 13)>>),
          Workbook(HeadersNoTotalCyc, <<>>),
          Workbook(HeadersAsKeys, <<RowA, RowB>>)}

\* TryBlock, tabulated over the workbooks of the model
TryBlockOf == [file \in Files |-> TryBlock(file)]

NoFile == [none |-> TRUE]

NoWork == [normalised |-> 0, aggregated |-> FALSE]

NoResult == [kind |-> "none"]

-----------------------------------------------------------------------------
(* The upload session *)

SessionInit ==
    /\ flightData = <<>>
    /\ stats = NoStats
    /\ isLoading = FALSE
    /\ reads = 0
    /\ alertMsg = ""
    /\ lastEvent = "init"
    /\ lastFile = NoFile
    /\ work = NoWork

Init ==
    /\ SessionInit
    /\ data = <<>>
    /\ result = NoResult

\* handleFileUpload(file): the loading flag is set and the read is started.
\* The function itself does not look at isLoading.
StartUpload ==
    /\ reads < MaxInFlight
    /\ isLoading' = TRUE
    /\ reads' = reads + 1
    /\ lastEvent' = "start"
    /\ UNCHANGED <<flightData, stats, alertMsg, lastFile, work>>
    /\ UNCHANGED statsVars

\* The effect of one onload run: try, catch and finally
Settle(file, run, set) ==
    /\ flightData' = set.flightData
    /\ stats' = set.stats
    /\ alertMsg' = run.message
    /\ work' = [normalised |-> run.normalised, aggregated |-> run.aggregated]
    /\ isLoading' = FALSE
    /\ lastFile' = file

Deliver(file, run) == Settle(file, run, SetState(run, flightData, stats))

\* reader.onload for a read that delivers the bytes of `file`: the handler
\* runs to its end in one turn of the event loop.
OnLoad(file) ==
    /\ reads > 0
    /\ Deliver(file, TryBlockOf[file])
    /\ reads' = reads - 1
    /\ lastEvent' = "onload"
    /\ UNCHANGED statsVars

\* The read ends in an error: the reader has no onerror handler, so nothing
\* of the component runs.
ReadError ==
    /\ reads > 0
    /\ reads' = reads - 1
    /\ lastEvent' = "readerror"
    /\ UNCHANGED <<flightData, stats, isLoading, alertMsg, lastFile, work>>
    /\ UNCHANGED statsVars

Next ==
    \/ StartUpload
    \/ \E file \in Files : OnLoad(file)
    \/ ReadError

Spec == Init /\ [][Next]_vars

-----------------------------------------------------------------------------
(* calculateStats on its own *)

MaxRecords == 4

\* A valid record as the normaliser shapes it, with the fields the aggregator
\* reads set from the arguments
Record(date, from, to, hours, minutes, totalCycles) ==
    [ser                |-> <<"1">>,
     date               |-> date,
     from               |-> from,
     to                 |-> to,
     takeoffHours       |-> 0,
     takeoffMinutes     |-> 0,
     landingHours       |-> 0,
     landingMinutes     |-> 0,
     flightHours        |-> 0,
     flightMinutes      |-> 0,
     cycles             |-> 0,
     totalFlightHours   |-> hours,
     totalFlightMinutes |-> minutes,
     totalCycles        |-> totalCycles,
     tlbNumber          |-> <<>>,
     lastDate           |-> <<>>,
     totalHours         |-> 0,
     totalMinutes       |-> 0,
     totalCyclesSum     |-> 0,
     hoursPerMonth      |-> 0,
     cyclesPerMonth     |-> 0]

Jan01 == <<"2", "0", "2", "4", "-", "0", "1", "-", "0", "1">>

Feb15 == <<"2", "0", "2", "4", "-", "0", "2", "-", "1", "5">>

Jan10 == <<"2", "0", "2", "4", "-", "0", "1", "-", "1", "0">>

NotADate == <<"n", "/", "a">>

Records ==
    {Record(Jan01, <<"A">>, <<"B">>, 1, 30, 3),
     Record(Feb15, <<"A">>, <<"B">>, 2, 45, 5),
     Record(Jan01, <<"C">>, <<"D">>, 0, 59, 1),
     Record(Feb15, <<"C">>, <<"D">>, 1, 5, 2),
     Record(Jan10, <<"A">>, <<"B">>, -1, 30, 1),
     Record(NotADate, <<"A">>, <<"B">>, 1, 30, 3),
     Record(NotADate, <<"C">>, <<"D">>, 2, 5, 4)}

StatsInit ==
    /\ SessionInit
    /\ data \in SeqsUpTo(Records, MaxRecords)
    /\ result = NoResult

\* calculateStats(data) is called
Calculate ==
    /\ result = NoResult
    /\ result' = calculateStats(data)
    /\ UNCHANGED data
    /\ UNCHANGED sessionVars

StatsNext == Calculate

SpecStats == StatsInit /\ [][StatsNext]_vars

-----------------------------------------------------------------------------
(* The sheet as the claims read it: cells addressed by the literal header *)

\* The latest onload run succeeded: flightData and stats are its results.
LastUploadSucceeded == lastFile # NoFile /\ alertMsg = ""

\* The cell of a sheet row in the column with the given literal header
SheetCell(file, row, header) ==
    IF \E i \in 1..Len(file.headers) : file.headers[i] = header
    THEN Cell(row, CHOOSE i \in 1..Len(file.headers) : file.headers[i] = header)
    ELSE Undefined

\* The integer a cell stands for, 0 when it is absent or does not parse
CellInt(cell) == OrZero(parseInt(Or(cell, <<"0">>)))

\* A row is valid when its serial (defaulted to its 1-based position k) and
\* its date are both non-empty.
RowIsValid(file, k) ==
    /\ Truthy(Or(SheetCell(file, file.rows[k], K_Ser), IntToText(k)))
    /\ Truthy(Or(SheetCell(file, file.rows[k], K_Date), <<>>))

\* The positions of the valid rows of a sheet, in sheet order
ValidRows(file) ==
    SelectSeq([k \in 1..Len(file.rows) |-> k], LAMBDA k : RowIsValid(file, k))

\* The sheet row the j-th record of flightData was made from
SourceRow(j) == lastFile.rows[ValidRows(lastFile)[j]]

SourceCell(j, header) == SheetCell(lastFile, SourceRow(j), header)

\* flightData holds one record per valid row of the latest upload
OneRecordPerValidRow ==
    LastUploadSucceeded /\ Len(flightData) = Len(ValidRows(lastFile))

-----------------------------------------------------------------------------
(* C1 *)

\* The hours and minutes the dual-source rule gives for a row
DualSource(totalFH, totalHrs) ==
    IF Includes(Or(totalFH, <<>>), ":") THEN parseTimeString(totalFH)
    ELSE [hours |-> CellInt(totalHrs), minutes |-> 0]

\* C1: after a successful upload, every record's totalFlightHours and
\* totalFlightMinutes are the hour and minute components of its row's
\* `Total F\H` cell when that cell holds a colon, and otherwise the integer
\* value of its `TOTAL HRS` cell and 0.
C1_DualSourceRule ==
    OneRecordPerValidRow =>
        \A j \in 1..Len(flightData) :
            /\ flightData[j].totalFlightHours =
                   DualSource(SourceCell(j, K_TotalFH),
                              SourceCell(j, K_TOTALHRS)).hours
            /\ flightData[j].totalFlightMinutes =
                   DualSource(SourceCell(j, K_TotalFH),
                              SourceCell(j, K_TOTALHRS)).minutes

-----------------------------------------------------------------------------
(* C2 *)

\* Each integer field of a record, with the literal header of its column
IntegerColumns ==
    {<<"takeoffHours", K_TOhrs>>, <<"takeoffMinutes", K_TOmin>>,
     <<"landingHours", K_Landinghrs>>, <<"landingMinutes", K_Landingmin>>,
     <<"flightHours", K_FHhrs>>, <<"flightMinutes", K_FHmin>>,
     <<"cycles", K_Cyc>>, <<"totalCycles", K_TotalCyc>>,
     <<"totalHours", K_TOTALHRS>>, <<"totalMinutes", K_TOTALMIN>>,
     <<"totalCyclesSum", K_TOTALCYC>>, <<"hoursPerMonth", K_HRSMOUNTH>>,
     <<"cyclesPerMonth", K_CYCMOUNTH>>}

\* C2: after a successful upload, every integer field of every record is the
\* integer value of the cell in its source column (totalCycles that of the
\* `Total Cyc` cell, and so on).
C2_IntegerFieldsFromCells ==
    OneRecordPerValidRow =>
        \A j \in 1..Len(flightData) : \A fc \in IntegerColumns :
            flightData[j][fc[1]] = CellInt(SourceCell(j, fc[2]))

-----------------------------------------------------------------------------
(* C6 *)

NumericFields ==
    {"takeoffHours", "takeoffMinutes", "landingHours", "landingMinutes",
     "flightHours", "flightMinutes", "cycles", "totalFlightHours",
     "totalFlightMinutes", "totalCycles", "totalHours", "totalMinutes",
     "totalCyclesSum", "hoursPerMonth", "cyclesPerMonth"}

\* C6: every numeric field of every normalised record is non-negative.
C6_NumericFieldsNonNegative ==
    \A j \in 1..Len(flightData) : \A f \in NumericFields : flightData[j][f] >= 0

-----------------------------------------------------------------------------
(* C7 *)

\* C7: after a successful upload, the record made from the k-th data row has
\* the string of k as its serial when that row's `Ser` cell is absent or empty.
C7_SerialFallbackIsRowPosition ==
    OneRecordPerValidRow =>
        \A j \in 1..Len(flightData) :
            ~Truthy(SourceCell(j, K_Ser)) =>
                flightData[j].ser = IntToText(ValidRows(lastFile)[j])

-----------------------------------------------------------------------------
(* C3 *)

\* The five header names an upload must carry, as the claims spell them
LiteralRequired == {K_Date, K_From, K_To, K_TotalFH, K_TotalCyc}

MissesRequiredHeader(file) ==
    \E h \in LiteralRequired : \A i \in 1..Len(file.headers) : file.headers[i] # h

\* The three ways an upload fails: undecodable bytes, a missing required
\* header, or no valid row
UploadFails(file) ==
    \/ ~file.decodable
    \/ MissesRequiredHeader(file)
    \/ ValidRows(file) = <<>>

\* This step is a run of reader.onload.
OnLoadStep == lastEvent' = "onload" /\ reads' = reads - 1

\* C3: an onload run for an upload that fails in one of the three ways leaves
\* flightData and stats as they were, alerts, and releases the loading flag
\* (so that another upload can be started).
C3_FailedUploadKeepsState ==
    [][(OnLoadStep /\ UploadFails(lastFile'))
          => /\ flightData' = flightData
             /\ stats' = stats
             /\ alertMsg' # ""
             /\ isLoading' = FALSE]_vars

\* A failed upload came after a successful one, whose results are still there.
C3_Witness ==
    /\ lastEvent = "onload"
    /\ UploadFails(lastFile)
    /\ flightData # <<>>
    /\ stats # NoStats

-----------------------------------------------------------------------------
(* C4 *)

\* The record sets the workbooks of the model give when their upload succeeds
SuccessfulRecordSets ==
    {TryBlockOf[file].processedData : file \in {f \in Files : TryBlockOf[f].ok}}

\* C4: flightData and stats are the initial pair, or the records of one
\* successful upload together with the statistics of exactly those records.
C4_ResultsNeverMixed ==
    \/ flightData = <<>> /\ stats = NoStats
    \/ /\ flightData \in SuccessfulRecordSets
       /\ stats = calculateStats(flightData)

\* An upload has completed successfully while another one is still in flight.
C4_Witness ==
    /\ reads > 0
    /\ lastEvent = "onload"
    /\ LastUploadSucceeded
    /\ Len(flightData) = 2
    /\ stats.totalFlights = 2

-----------------------------------------------------------------------------
(* C8 *)

RECURSIVE SumField(_, _)
SumField(entries, field) ==
    IF entries = <<>> THEN 0
    ELSE entries[1][field] + SumField(Tail(entries), field)

\* C8: after a successful upload, flightData holds, in sheet order, exactly
\* the rows whose serial and date are non-empty after defaulting, and the
\* statistics count those rows only: in totalFlights, in the route buckets and
\* in the month buckets.
C8_RowValidityFilter ==
    LastUploadSucceeded =>
        /\ Len(flightData) = Len(ValidRows(lastFile))
        /\ \A j \in 1..Len(flightData) :
               /\ flightData[j].date = SourceCell(j, K_Date)
               /\ flightData[j].from = Or(SourceCell(j, K_From), <<>>)
               /\ flightData[j].to = Or(SourceCell(j, K_To), <<>>)
               /\ flightData[j].ser # <<>>
               /\ flightData[j].date # <<>>
        /\ stats.totalFlights = Len(ValidRows(lastFile))
        /\ SumField(stats.routeStats, "count") = Len(ValidRows(lastFile))
        /\ SumField(stats.monthlyStats, "flights") = Len(ValidRows(lastFile))
        /\ \A e \in {stats.routeStats[i] : i \in 1..Len(stats.routeStats)} :
               e.count = Cardinality({j \in 1..Len(flightData) :
                                         RouteKey(flightData[j]) = e.key})

\* A successful upload of a sheet with a row that has no date, and one that has
C8_Witness ==
    /\ LastUploadSucceeded
    /\ lastEvent = "onload"
    /\ Len(lastFile.rows) = 2
    /\ ~Truthy(SheetCell(lastFile, lastFile.rows[1], K_Date))
    /\ Len(flightData) = 1

-----------------------------------------------------------------------------
(* C9 *)

\* C9: a decoded upload is rejected with the missing-headers error exactly
\* when one of the five literal header names is not in its header row, and it
\* is rejected before any row is normalised or aggregated.
C9_RequiredHeaderCheck ==
    (lastFile # NoFile /\ lastFile.decodable) =>
        /\ (alertMsg = MsgHeaders) <=> MissesRequiredHeader(lastFile)
        /\ alertMsg = MsgHeaders
               => work.normalised = 0 /\ ~work.aggregated

\* An upload whose sheet has data rows was rejected for its headers, although
\* each of its headers has the key of a required column.
C9_Witness ==
    /\ lastEvent = "onload"
    /\ lastFile # NoFile
    /\ alertMsg = MsgHeaders
    /\ Len(lastFile.rows) > 0
    /\ \A h \in LiteralRequired : \E i \in 1..Len(lastFile.headers) :
           CanonicalKey(lastFile.headers[i]) = CanonicalKey(h)

-----------------------------------------------------------------------------
(* C5 *)

DateParses(r) == ~DateParse(r.date).nan

CountParsing(d) == Cardinality({i \in 1..Len(d) : DateParses(d[i])})

\* The "YYYY-MM" keys of the records whose date parses
MonthsOf(d) ==
    {SubSeq(d[i].date, 1, 7) : i \in {j \in 1..Len(d) : DateParses(d[j])}}

\* C5: for every non-empty sequence of valid records calculateStats returns a
\* FlightStats: the month buckets hold exactly the records whose date parses,
\* the totals and the route statistics cover all records, and totalDays and
\* averageFlightsPerDay are 0 when no date parses.
C5_UnparseableDatesTolerated ==
    (result # NoResult /\ data # <<>>) =>
        /\ result.kind = "stats"
        /\ {result.monthlyStats[i].key : i \in 1..Len(result.monthlyStats)}
               = MonthsOf(data)
        /\ SumField(result.monthlyStats, "flights") = CountParsing(data)
        /\ result.totalFlights = Len(data)
        /\ result.totalCycles = SumCycles(data)
        /\ SumField(result.routeStats, "count") = Len(data)
        /\ CountParsing(data) = 0
               => result.totalDays = 0 /\ result.averageFlightsPerDay = 0

-----------------------------------------------------------------------------
(* C10 *)

RoutesOf(d) == {RouteKey(d[i]) : i \in 1..Len(d)}

RouteCount(d, route) == Cardinality({i \in 1..Len(d) : RouteKey(d[i]) = route})

FirstSeen(d, route) == SetMin({i \in 1..Len(d) : RouteKey(d[i]) = route})

\* The route has a maximal count, and is the first seen among those that have
IsFirstMostFrequent(d, route) ==
    /\ route \in RoutesOf(d)
    /\ \A other \in RoutesOf(d) :
           /\ RouteCount(d, other) <= RouteCount(d, route)
           /\ RouteCount(d, other) = RouteCount(d, route)
                  => FirstSeen(d, route) <= FirstSeen(d, other)

\* C10: for every non-empty record sequence calculateStats gives as
\* mostFrequentRoute the route of maximal count that is seen first, and for no
\* records it gives "N/A".
C10_MostFrequentRoute ==
    result # NoResult =>
        IF data = <<>> THEN result.mostFrequentRoute = NotAvailable
        ELSE /\ result.kind = "stats"
             /\ IsFirstMostFrequent(data, result.mostFrequentRoute)

\* Whenever calculateStats returns for a non-empty sequence, mostFrequentRoute
\* is the route of maximal count that is seen first.
MostFrequentRouteWhenReturned ==
    (result # NoResult /\ data # <<>> /\ result.kind = "stats")
        => IsFirstMostFrequent(data, result.mostFrequentRoute)

\* A sequence on which two routes tie, and calculateStats returns
TiedRoutesReturned ==
    /\ result # NoResult /\ result.kind = "stats"
    /\ Len(result.routeStats) = 2
    /\ result.routeStats[1].count = 2
    /\ result.routeStats[2].count = 2

-----------------------------------------------------------------------------
(* C11 *)

\* max(totalFlightHours*60 + totalFlightMinutes, 0), as the claim states it
ClaimedMinutes(r) ==
    IF r.totalFlightHours * 60 + r.totalFlightMinutes > 0
    THEN r.totalFlightHours * 60 + r.totalFlightMinutes
    ELSE 0

RECURSIVE SumClaimedMinutes(_)
SumClaimedMinutes(d) ==
    IF d = <<>> THEN 0 ELSE ClaimedMinutes(Head(d)) + SumClaimedMinutes(Tail(d))

\* A text "H...:MM" whose minutes part is two digits naming 00..59
IsTimeText(text) ==
    LET parts == Split(text, ":") IN
        /\ Len(parts) = 2
        /\ parts[1] # <<>> /\ AllDigits(parts[1])
        /\ Len(parts[2]) = 2 /\ AllDigits(parts[2])
        /\ NumberOf(parts[2]).val \in 0..59

\* hours*60 + minutes of a time text
ParseTimeBack(text) ==
    LET parts == Split(text, ":") IN
        NumberOf(parts[1]).val * 60 + NumberOf(parts[2]).val

FormatExamples ==
    /\ formatMinutesToTime(125) = <<"2", ":", "0", "5">>
    /\ formatMinutesToTime(0) = <<"0", ":", "0", "0">>
    /\ formatMinutesToTime(59) = <<"0", ":", "5", "9">>

\* C11: for every sequence of valid records calculateStats gives a
\* totalFlightTime whose minutes part is two digits in 00..59 and which parses
\* back, as hours*60 + minutes, to the sum of max(hours*60 + minutes, 0) over
\* the records; 125 formats as "2:05", 0 as "0:00" and 59 as "0:59".
C11_TotalTimeRoundTrip ==
    /\ FormatExamples
    /\ result # NoResult =>
           /\ result.kind = "stats"
           /\ IsTimeText(result.totalFlightTime)
           /\ ParseTimeBack(result.totalFlightTime) = SumClaimedMinutes(data)

\* Whenever calculateStats returns, totalFlightTime round-trips
TotalTimeRoundTripWhenReturned ==
    /\ FormatExamples
    /\ (result # NoResult /\ result.kind = "stats") =>
           /\ IsTimeText(result.totalFlightTime)
           /\ ParseTimeBack(result.totalFlightTime) = SumClaimedMinutes(data)

\* calculateStats returns for a sequence that holds a record of negative
\* minutes, with a total of an hour or more and a one-digit minutes value
ClampedTotalReturned ==
    /\ result # NoResult /\ result.kind = "stats"
    /\ \E i \in 1..Len(data) :
           data[i].totalFlightHours * 60 + data[i].totalFlightMinutes < 0
    /\ SumClaimedMinutes(data) >= 60
    /\ SumClaimedMinutes(data) % 60 \in 1..9

-----------------------------------------------------------------------------
(* C12 *)

\* The days, counted from the epoch, of the records whose date parses
ParsedDays(d) ==
    {DateParse(d[i].date).val \div HoursPerDay :
        i \in {j \in 1..Len(d) : DateParses(d[j])}}

\* ceil(latest - earliest, in days) + 1: the dates are whole days
ClaimedTotalDays(d) == SetMax(ParsedDays(d)) - SetMin(ParsedDays(d)) + 1

Reverse(s) == [i \in 1..Len(s) |-> s[Len(s) + 1 - i]]

\* What calculateStats gives as totalDays, or -1 when it throws
TotalDaysGiven(d) ==
    IF calculateStats(d).kind = "stats" THEN calculateStats(d).totalDays ELSE -1

DaySpanExamples ==
    /\ TotalDaysGiven(<<Record(Feb15, <<"A">>, <<"B">>, 1, 0, 1)>>) = 1
    /\ TotalDaysGiven(<<Record(Jan01, <<"A">>, <<"B">>, 1, 0, 1),
                        Record(Jan10, <<"A">>, <<"B">>, 1, 0, 1)>>) = 10
    /\ TotalDaysGiven(<<Record(Jan10, <<"A">>, <<"B">>, 1, 0, 1),
                        Record(Jan01, <<"A">>, <<"B">>, 1, 0, 1)>>) = 10

\* C12: for every record sequence in which at least one date parses,
\* calculateStats gives totalDays = (latest parseable day - earliest parseable
\* day) + 1, which is at least 1 and is the same for the records in reverse
\* order; one dated record gives 1, 2024-01-01 with 2024-01-10 gives 10.
C12_DaySpan ==
    /\ DaySpanExamples
    /\ (result # NoResult /\ CountParsing(data) > 0) =>
           /\ result.kind = "stats"
           /\ result.totalDays = ClaimedTotalDays(data)
           /\ result.totalDays >= 1
           /\ TotalDaysGiven(Reverse(data)) = result.totalDays

\* Whenever calculateStats returns for a sequence with a date that parses,
\* totalDays is the span of the parseable days
DaySpanWhenReturned ==
    /\ DaySpanExamples
    /\ (result # NoResult /\ result.kind = "stats" /\ CountParsing(data) > 0) =>
           /\ result.totalDays = ClaimedTotalDays(data)
           /\ result.totalDays >= 1
           /\ TotalDaysGiven(Reverse(data)) = result.totalDays

\* calculateStats returns for a sequence whose latest date comes first
LatestFirstReturned ==
    /\ result # NoResult /\ result.kind = "stats"
    /\ Len(data) >= 3
    /\ data[1].date = Feb15 /\ data[2].date = Jan01 /\ data[3].date = Jan10
    /\ result.totalDays = 46

-----------------------------------------------------------------------------
(* C13 *)

RECURSIVE SumRouteMinutes(_, _)
SumRouteMinutes(d, route) ==
    IF d = <<>> THEN 0
    ELSE (IF RouteKey(Head(d)) = route THEN ClaimedMinutes(Head(d)) ELSE 0)
             + SumRouteMinutes(Tail(d), route)

\* The entries are one per route of d, each with the count and the minutes of
\* the records of its route
PartitionsByRoute(routeStats, d) ==
    /\ {routeStats[i].key : i \in 1..Len(routeStats)} = RoutesOf(d)
    /\ Len(routeStats) = Cardinality(RoutesOf(d))
    /\ \A i \in 1..Len(routeStats) :
           /\ routeStats[i].count = RouteCount(d, routeStats[i].key)
           /\ routeStats[i].totalTime = SumRouteMinutes(d, routeStats[i].key)

\* C13: for every record sequence calculateStats gives a routeStats with
\* exactly one entry per distinct route key of the records, holding the number
\* of records of that route and the sum of their minutes; the counts sum to
\* totalFlights and the times to the minutes behind totalFlightTime.
C13_RouteStatsPartition ==
    result # NoResult =>
        /\ result.kind = "stats"
        /\ PartitionsByRoute(result.routeStats, data)
        /\ SumField(result.routeStats, "count") = result.totalFlights
        /\ SumField(result.routeStats, "totalTime")
               = ParseTimeBack(result.totalFlightTime)

\* Whenever calculateStats returns, routeStats partitions the records
RouteStatsPartitionWhenReturned ==
    (result # NoResult /\ result.kind = "stats") =>
        /\ PartitionsByRoute(result.routeStats, data)
        /\ SumField(result.routeStats, "count") = result.totalFlights
        /\ SumField(result.routeStats, "totalTime")
               = ParseTimeBack(result.totalFlightTime)

\* calculateStats returns for a sequence of two routes with interleaved
\* records, different counts and different times
UnevenRoutesReturned ==
    /\ result # NoResult /\ result.kind = "stats"
    /\ Len(data) = 4
    /\ RouteKey(data[1]) # RouteKey(data[2])
    /\ RouteKey(data[3]) = RouteKey(data[1])
    /\ RouteKey(data[4]) = RouteKey(data[1])
    /\ Len(result.routeStats) = 2
    /\ result.routeStats[1].count = 3
    /\ result.routeStats[2].count = 1
    /\ result.routeStats[1].totalTime > result.routeStats[2].totalTime
    /\ result.routeStats[2].totalTime > 0

-----------------------------------------------------------------------------
(* The upload session with every read completing *)

\* A read that was started ends once: in a load event or in an error event
Completes == (\E file \in Files : OnLoad(file)) \/ ReadError

\* The browser ends every read that was started; nothing obliges the user to
\* start another upload.
FairSpec == Spec /\ WF_vars(Completes)

\* The session in which no read ends in an error
NextLoads ==
    \/ StartUpload
    \/ \E file \in Files : OnLoad(file)

FairSpecLoads ==
    Init /\ [][NextLoads]_vars /\ WF_vars(\E file \in Files : OnLoad(file))

-----------------------------------------------------------------------------
(* C14 *)

\* C14: every upload that is started, which sets isLoading, is eventually
\* followed by isLoading = FALSE, whether its read ends in a load or in an
\* error.
C14_LoadingReleased == isLoading ~> ~isLoading

\* Every onload run, failed or not, ends with the flag released
OnLoadReleases == [][OnLoadStep => ~isLoading']_vars

\* The flag is set while no read is in flight: no handler is left to clear it
LoadingWithNoRead == isLoading /\ reads = 0

\* A read that ends in an error leaves the flag as it was
ReadErrorKeepsLoading ==
    [][(lastEvent' = "readerror" /\ reads' = reads - 1)
           => isLoading' = isLoading]_vars

====
